---------------------------- MODULE Spec2Model ----------------------------
(***************************************************************************)
(* protonmail-bridge-guardian: the guardian loop (probe, throttle decision, *)
(* restart, sleeps), the shared counter store behind one lock, and the      *)
(* /metrics handler that snapshots the store from the HTTP server thread.   *)
(* Time is the wall clock in seconds, as time.time() returns it.            *)
(***************************************************************************)
EXTENDS Integers, Sequences, FiniteSets, TLC

\* ---- configuration (defaults of the environment overrides) ----
CHECK_INTERVAL == 20
RESTART_COOLDOWN == 30
STARTUP_DELAY == 30
DefaultLimit == 5
\* the literals of the code
WINDOW == 3600
THROTTLE_WAIT == 300

\* ---- bounds of the model ----
\* the values of the MAX_RESTARTS_PER_HOUR override tried
Limits == {0, 1, 2}
\* the guardian loop starts at most MAX_RESTARTS_PER_HOUR + ExtraChecks probes
ExtraChecks == 1
\* the clock advances at most MAX_RESTARTS_PER_HOUR + ExtraTicks times
ExtraTicks == 2
\* the HTTP server accepts at most this many requests
MaxRequests == 1
\* the amounts by which the wall clock advances between two steps
TickSteps == {THROTTLE_WAIT, WINDOW}
\* the request paths tried
Paths == {"/metrics", "/other"}
\* how the external restart call can end: exit status 0, a non-zero exit
\* status (CalledProcessError), or any other exception (docker not found)
RestartOutcomes == {"ok", "called_process_error", "other_exception"}
\* how the probe's exchange can end: a reply with "a OK" and "INBOX", a
\* reply without one of them, or an exception in connect, send or read
ProbeResults == {"ok", "bad_reply", "error"}
\* those of a bridge that is down
FailingResults == {"bad_reply", "error"}

VARIABLES
    \* line 28: the configured hourly limit, read once at import
    MAX_RESTARTS_PER_HOUR,
    \* the counter store (module-level globals)
    imap_checks_total, imap_failures_total, restarts_total,
    recent_restarts, last_restart_ts, bridge_status,
    \* threading.Lock: "free", or the thread that holds it
    lock,
    \* the wall clock, and how many times it has advanced
    clock, ticks,
    \* guardian thread: position, locals of guardian_loop, end of the sleep
    \* it is in (0 outside a sleep)
    pc, healthy, now, recent_count, wake,
    \* HTTP server thread: position, path of the request, last response
    mpc, path, resp, requests,
    \* the response before the last one, where a run keeps it (not program
    \* state)
    prev,
    \* history of the run (not program state)
    invoked,        \* number of calls of check_imap started
    probed,         \* number of probes that reached a verdict
    unhealthy,      \* number of those whose verdict was False
    ending,         \* how the probe of the cycle ended, until its branch,
                    \* where a run notes it
    restart_calls,  \* number of external restart calls started
    outcome,        \* how the last restart call ended
    accepted,       \* the timestamp of every record_restart, in order
    dec             \* the store as the last throttle decision left it

store == <<imap_checks_total, imap_failures_total, restarts_total,
           recent_restarts, last_restart_ts, bridge_status>>
guardian == <<pc, healthy, now, recent_count, wake>>
metrics == <<mpc, path, resp, requests, prev>>
ghost == <<invoked, probed, unhealthy, ending, restart_calls, outcome,
           accepted, dec>>
config == <<MAX_RESTARTS_PER_HOUR>>
time == <<clock, ticks>>
vars == <<config, store, lock, time, guardian, metrics, ghost>>

NoResp == [code |-> 0]
NoDec == [cycle |-> 0]

\* ---- restart logic ----

one_hour_ago_Now(t) == t

\* line 105
one_hour_ago(t) == t - WINDOW

IsRecent_Strict(t, cutoff) == t > cutoff

\* line 106: the condition of the list comprehension
IsRecent(t, cutoff) == t >= cutoff

\* line 106: [t for t in recent_restarts if t >= one_hour_ago]
RECURSIVE Comprehension(_, _)
Comprehension(s, cutoff) ==
    IF s = <<>> THEN <<>>
    ELSE IF IsRecent(Head(s), cutoff)
         THEN <<Head(s)>> \o Comprehension(Tail(s), cutoff)
         ELSE Comprehension(Tail(s), cutoff)

\* count_recent_restarts: the list it leaves in recent_restarts
PrunedHistory(hist, t) == Comprehension(hist, one_hour_ago(t))

count_recent_restarts_Unpruned(hist, t) == Len(hist)

\* count_recent_restarts: the value it returns
count_recent_restarts(hist, t) == Len(PrunedHistory(hist, t))

RecordedHistory_Dropped(hist, t) == hist
RecordedHistory_Prepended(hist, t) == <<t>> \o hist
RecordedLast_FirstOnly(last, t) == IF last = 0 THEN t ELSE last
RecordedTotal_Deferred(total) == total

\* record_restart: the three assignments
RecordedHistory(hist, t) == Append(hist, t)
RecordedLast(last, t) == t
RecordedTotal(total) == total + 1

LimitReached_Strict(count, limit) == count > limit

\* line 145
LimitReached(count, limit) == count >= limit

\* ---- initial state: module load, guardian thread started ----
Loaded ==
    /\ imap_checks_total = 0
    /\ imap_failures_total = 0
    /\ restarts_total = 0
    /\ recent_restarts = <<>>
    /\ last_restart_ts = 0
    /\ bridge_status = 0
    /\ lock = "free"
    /\ clock = 0
    /\ ticks = 0
    /\ pc = "startup"
    /\ healthy = FALSE
    /\ now = 0
    /\ recent_count = 0
    /\ wake = STARTUP_DELAY
    /\ mpc = "idle"
    /\ path = ""
    /\ resp = NoResp
    /\ requests = 0
    /\ prev = NoResp
    /\ invoked = 0
    /\ probed = 0
    /\ unhealthy = 0
    /\ ending = "none"
    /\ restart_calls = 0
    /\ outcome = "none"
    /\ accepted = <<>>
    /\ dec = NoDec

\* the limit is one of the overrides tried
Init ==
    /\ MAX_RESTARTS_PER_HOUR \in Limits
    /\ Loaded

\* the limit is the default
InitDefault ==
    /\ MAX_RESTARTS_PER_HOUR = DefaultLimit
    /\ Loaded

\* ---- the wall clock ----
TickBy(steps) ==
    /\ ticks < MAX_RESTARTS_PER_HOUR + ExtraTicks
    /\ \E d \in steps : clock' = clock + d
    /\ ticks' = ticks + 1
    /\ UNCHANGED <<config, store, lock, guardian, metrics, ghost>>

Tick == TickBy(TickSteps)

\* the clock of a run that stays inside one window
BurstTick == TickBy({THROTTLE_WAIT})

\* ---- guardian_loop ----

StartupDone_Early ==
    /\ pc = "startup"
    /\ pc' = "check_enter"
    /\ UNCHANGED <<config, store, lock, time, healthy, now, recent_count, wake,
                   metrics, ghost>>

\* lines 129-131: time.sleep(STARTUP_DELAY)
StartupDone ==
    /\ pc = "startup"
    /\ clock >= wake
    /\ pc' = "check_enter"
    /\ wake' = 0
    /\ UNCHANGED <<config, store, lock, time, healthy, now, recent_count,
                   metrics, ghost>>

\* line 134 calls check_imap; line 55 takes the lock
CheckAcquire ==
    /\ pc = "check_enter"
    /\ invoked < MAX_RESTARTS_PER_HOUR + ExtraChecks
    /\ lock = "free"
    /\ lock' = "guardian"
    /\ pc' = "check_count"
    /\ invoked' = invoked + 1
    /\ UNCHANGED <<config, store, time, healthy, now, recent_count, wake, metrics,
                   probed, unhealthy, ending, restart_calls, outcome,
                   accepted, dec>>

CheckCount_KeepsLock ==
    /\ pc = "check_count"
    /\ imap_checks_total' = imap_checks_total + 1
    /\ pc' = "probe"
    /\ UNCHANGED <<config, imap_failures_total, restarts_total, recent_restarts,
                   last_restart_ts, bridge_status, lock, time, healthy, now,
                   recent_count, wake, metrics, ghost>>

\* line 56, and the lock released
CheckCount ==
    /\ pc = "check_count"
    /\ imap_checks_total' = imap_checks_total + 1
    /\ lock' = "free"
    /\ pc' = "probe"
    /\ UNCHANGED <<config, imap_failures_total, restarts_total, recent_restarts,
                   last_restart_ts, bridge_status, time, healthy, now,
                   recent_count, wake, metrics, ghost>>

Verdict_ErrorsPass(r) == r # "bad_reply"

\* lines 82-85 and 87-89: healthy is login_ok and inbox_ok, or False in the
\* handler of Exception
Verdict(r) == r = "ok"

\* lines 58-89: the network exchange and the verdict it gives; noting says
\* whether the run notes how the exchange ended
ProbeOf(results, noting) ==
    /\ pc = "probe"
    /\ \E r \in results :
          /\ ending' = IF noting THEN r ELSE "none"
          /\ healthy' = Verdict(r)
          /\ unhealthy' = IF Verdict(r) THEN unhealthy ELSE unhealthy + 1
    /\ probed' = probed + 1
    /\ pc' = "verdict_enter"
    /\ UNCHANGED <<config, store, lock, time, now, recent_count, wake, metrics,
                   invoked, restart_calls, outcome, accepted, dec>>

Probe == ProbeOf(ProbeResults, FALSE)

\* the same probe, in a run that notes how it ended
ProbeNoted == ProbeOf(ProbeResults, TRUE)

\* the probe of a bridge that stays down until the restart budget of the
\* hour has been used
BurstProbe ==
    ProbeOf(IF probed < MAX_RESTARTS_PER_HOUR THEN FailingResults
            ELSE ProbeResults, FALSE)

\* line 91
VerdictAcquire ==
    /\ pc = "verdict_enter"
    /\ lock = "free"
    /\ lock' = "guardian"
    /\ pc' = "verdict_store"
    /\ UNCHANGED <<config, store, time, healthy, now, recent_count, wake, metrics,
                   ghost>>

FailuresAfter_Twice(h, failures) == IF ~h THEN failures + 2 ELSE failures
FailuresAfter_Inverted(h, failures) == IF h THEN failures + 1 ELSE failures
StatusAfter_Inverted(h) == IF ~h THEN 1 ELSE 0

\* lines 92-96: what the verdict does to the failure counter and the status
FailuresAfter(h, failures) == IF ~h THEN failures + 1 ELSE failures
StatusAfter(h) == IF ~h THEN 0 ELSE 1

\* lines 92-98, and the lock released
VerdictStore ==
    /\ pc = "verdict_store"
    /\ imap_failures_total' = FailuresAfter(healthy, imap_failures_total)
    /\ bridge_status' = StatusAfter(healthy)
    /\ lock' = "free"
    /\ pc' = "read_time"
    /\ UNCHANGED <<config, imap_checks_total, restarts_total, recent_restarts,
                   last_restart_ts, time, healthy, now, recent_count, wake,
                   metrics, ghost>>

\* lines 136-138 and 156-158: now = time.time(), then the branch on healthy
ReadTime ==
    /\ pc = "read_time"
    /\ now' = clock
    /\ IF healthy
       THEN /\ pc' = "sleep_check"
            /\ wake' = clock + CHECK_INTERVAL
            /\ ending' = "none"
       ELSE /\ pc' = "decide_enter"
            /\ wake' = wake
            /\ ending' = ending
    /\ UNCHANGED <<config, store, lock, time, healthy, recent_count, metrics,
                   invoked, probed, unhealthy, restart_calls, outcome,
                   accepted, dec>>

\* line 141
DecideAcquire ==
    /\ pc = "decide_enter"
    /\ lock = "free"
    /\ lock' = "guardian"
    /\ pc' = "decide_count"
    /\ UNCHANGED <<config, store, time, healthy, now, recent_count, wake, metrics,
                   ghost>>

\* lines 142-147: the count under the lock, the lock released, the branch,
\* and the start of the 300 s wait
Decide ==
    /\ pc = "decide_count"
    /\ recent_restarts' = PrunedHistory(recent_restarts, now)
    /\ recent_count' = count_recent_restarts(recent_restarts, now)
    /\ lock' = "free"
    /\ dec' = [cycle |-> invoked, at |-> now, clock |-> clock,
               count |-> count_recent_restarts(recent_restarts, now),
               hist |-> PrunedHistory(recent_restarts, now),
               restarts |-> restarts_total, last |-> last_restart_ts,
               calls |-> restart_calls, recorded |-> Len(accepted)]
    /\ ending' = "none"
    /\ IF LimitReached(recent_count', MAX_RESTARTS_PER_HOUR)
       THEN /\ pc' = "throttled_wait"
            /\ wake' = clock + THROTTLE_WAIT
       ELSE /\ pc' = "record_enter"
            /\ wake' = wake
    /\ UNCHANGED <<config, imap_checks_total, imap_failures_total, restarts_total,
                   last_restart_ts, bridge_status, time, healthy, now,
                   metrics, invoked, probed, unhealthy, restart_calls,
                   outcome, accepted>>

\* line 149
RecordAcquire ==
    /\ pc = "record_enter"
    /\ lock = "free"
    /\ lock' = "guardian"
    /\ pc' = "record_store"
    /\ UNCHANGED <<config, store, time, healthy, now, recent_count, wake, metrics,
                   ghost>>

\* lines 150-152: record_restart(now), count_recent_restarts(now), the lock
\* released
Record ==
    /\ pc = "record_store"
    /\ recent_restarts' =
          PrunedHistory(RecordedHistory(recent_restarts, now), now)
    /\ last_restart_ts' = RecordedLast(last_restart_ts, now)
    /\ restarts_total' = RecordedTotal(restarts_total)
    /\ accepted' = Append(accepted, now)
    /\ lock' = "free"
    /\ pc' = "restart_invoke"
    /\ UNCHANGED <<config, imap_checks_total, imap_failures_total, bridge_status,
                   time, healthy, now, recent_count, wake, metrics, invoked,
                   probed, unhealthy, ending, restart_calls, outcome, dec>>

\* line 153 and lines 118-120: subprocess.run(["docker", "restart", BRIDGE])
\* is started
RestartInvoke ==
    /\ pc = "restart_invoke"
    /\ restart_calls' = restart_calls + 1
    /\ pc' = "restart_running"
    /\ UNCHANGED <<config, store, lock, time, healthy, now, recent_count, wake,
                   metrics, invoked, probed, unhealthy, ending, outcome,
                   accepted, dec>>

\* lines 120-123: only CalledProcessError is caught
Survives(o) == o \in {"ok", "called_process_error"}

\* lines 120-123 and 154-155: the call ends; the cooldown sleep starts, or
\* the exception leaves guardian_loop and the thread ends
RestartReturn ==
    /\ pc = "restart_running"
    /\ \E o \in RestartOutcomes :
          /\ outcome' = o
          /\ IF Survives(o)
             THEN /\ pc' = "cooldown"
                  /\ wake' = clock + RESTART_COOLDOWN
             ELSE /\ pc' = "crashed"
                  /\ wake' = wake
    /\ UNCHANGED <<config, store, lock, time, healthy, now, recent_count, metrics,
                   invoked, probed, unhealthy, ending, restart_calls,
                   accepted, dec>>

\* line 147: time.sleep(300) returns
ThrottledWaitDone ==
    /\ pc = "throttled_wait"
    /\ clock >= wake
    /\ pc' = "check_enter"
    /\ wake' = 0
    /\ UNCHANGED <<config, store, lock, time, healthy, now, recent_count,
                   metrics, ghost>>

CooldownDone_Retry ==
    /\ pc = "cooldown"
    /\ clock >= wake
    /\ pc' = IF outcome = "ok" THEN "check_enter" ELSE "restart_invoke"
    /\ UNCHANGED <<config, store, lock, time, healthy, now, recent_count, wake,
                   metrics, ghost>>

\* line 155: time.sleep(RESTART_COOLDOWN) returns
CooldownDone ==
    /\ pc = "cooldown"
    /\ clock >= wake
    /\ pc' = "check_enter"
    /\ wake' = 0
    /\ UNCHANGED <<config, store, lock, time, healthy, now, recent_count,
                   metrics, ghost>>

\* line 158: time.sleep(CHECK_INTERVAL) returns
CheckIntervalDone ==
    /\ pc = "sleep_check"
    /\ clock >= wake
    /\ pc' = "check_enter"
    /\ wake' = 0
    /\ UNCHANGED <<config, store, lock, time, healthy, now, recent_count,
                   metrics, ghost>>

\* ---- MetricsHandler.do_GET, on the HTTP server thread ----

\* a request arrives (serve_forever handles one request at a time) while
\* the client has more to send; kept is what the run remembers of the
\* earlier responses
RequestOf(more, kept) ==
    /\ mpc = "idle"
    /\ more
    /\ \E p \in Paths : path' = p
    /\ requests' = requests + 1
    /\ resp' = NoResp
    /\ prev' = kept
    /\ mpc' = "dispatch"
    /\ UNCHANGED <<config, store, lock, time, guardian, ghost>>

Request == RequestOf(requests < MaxRequests, prev)

\* a client that reads again until the run has a pair of responses, the
\* earlier of which it keeps
RequestAgain == RequestOf(prev = NoResp, resp)

\* lines 165-168
NotFound ==
    /\ mpc = "dispatch"
    /\ path # "/metrics"
    /\ resp' = [code |-> 404]
    /\ mpc' = "idle"
    /\ UNCHANGED <<config, store, lock, time, guardian, path, requests, prev,
                   ghost>>

\* line 170
MetricsAcquire ==
    /\ mpc = "dispatch"
    /\ path = "/metrics"
    /\ lock = "free"
    /\ lock' = "metrics"
    /\ mpc' = "render"
    /\ UNCHANGED <<config, store, time, guardian, path, resp, requests, prev,
                   ghost>>

ReportedRecent_Unpruned(hist, t) == Len(hist)

\* line 186: the value of proton_guardian_recent_restarts
ReportedRecent(hist, t) == count_recent_restarts(hist, t)

\* lines 171-207: the seven values read under the lock (the count prunes),
\* the lock released, the response sent
MetricsServe ==
    /\ mpc = "render"
    /\ recent_restarts' = PrunedHistory(recent_restarts, clock)
    /\ resp' = [code |-> 200,
                imap_checks_total |-> imap_checks_total,
                imap_failures_total |-> imap_failures_total,
                restarts_total |-> restarts_total,
                recent_restarts |-> ReportedRecent(recent_restarts, clock),
                restart_limit |-> MAX_RESTARTS_PER_HOUR,
                last_restart_timestamp |-> last_restart_ts,
                bridge_status |-> bridge_status,
                at |-> clock, gpc |-> pc, cycle |-> invoked]
    /\ lock' = "free"
    /\ mpc' = "idle"
    /\ UNCHANGED <<config, imap_checks_total, imap_failures_total, restarts_total,
                   last_restart_ts, bridge_status, time, guardian, path,
                   requests, prev, ghost>>

\* the steps of the guardian thread other than the probe's exchange
GuardianOther ==
    \/ StartupDone
    \/ CheckAcquire
    \/ CheckCount
    \/ VerdictAcquire
    \/ VerdictStore
    \/ ReadTime
    \/ DecideAcquire
    \/ Decide
    \/ RecordAcquire
    \/ Record
    \/ RestartInvoke
    \/ RestartReturn
    \/ ThrottledWaitDone
    \/ CooldownDone
    \/ CheckIntervalDone

MetricsStep ==
    \/ Request
    \/ NotFound
    \/ MetricsAcquire
    \/ MetricsServe

Next ==
    \/ Tick
    \/ Probe
    \/ GuardianOther
    \/ MetricsStep

Spec == Init /\ [][Next]_vars

\* the default limit, a clock that stays inside one window, and a bridge
\* that stays down until the budget has been used
BurstNext ==
    \/ BurstTick
    \/ BurstProbe
    \/ GuardianOther
    \/ MetricsStep

BurstSpec == InitDefault /\ [][BurstNext]_vars

\* the runs of one scenario: a limit of 1
ReadLimits == {1}

InitReads ==
    /\ MAX_RESTARTS_PER_HOUR \in ReadLimits
    /\ Loaded

\* a client that polls /metrics while the guardian runs
ReadsStep ==
    \/ RequestAgain
    \/ NotFound
    \/ MetricsAcquire
    \/ MetricsServe

ReadsNext ==
    \/ Tick
    \/ Probe
    \/ GuardianOther
    \/ ReadsStep

ReadsSpec == InitReads /\ [][ReadsNext]_vars

\* the guardian with a limit of 1, in a run that notes how each probe ended
NotedNext ==
    \/ Tick
    \/ ProbeNoted
    \/ GuardianOther
    \/ MetricsStep

NotedSpec == InitReads /\ [][NotedNext]_vars

\* what the scheduler guarantees: a thread inside a critical section runs
\* to its end (the bodies neither block nor wait), the HTTP server thread
\* runs its handler, and it gets the lock if the lock is free again and
\* again
CriticalSection ==
    \/ CheckCount
    \/ VerdictStore
    \/ Decide
    \/ Record

Fairness ==
    /\ WF_vars(CriticalSection)
    /\ WF_vars(NotFound)
    /\ SF_vars(MetricsAcquire)
    /\ WF_vars(MetricsServe)

\* the guardian with a limit of 1 and a client, fairly scheduled
FairSpec == InitReads /\ [][Next]_vars /\ Fairness

\* ---- the properties ----

\* the entries of h inside the rolling window that ends at t
InWindow(h, t) ==
    LET Inside(x) == x >= t - WINDOW IN SelectSeq(h, Inside)

Elements(h) == {h[i] : i \in 1..Len(h)}

\* the guardian is inside check_imap
InCheck == pc \in {"check_count", "probe", "verdict_enter", "verdict_store"}

\* the cycle of the last throttle decision has not ended, and that decision
\* refused the restart
ThrottledCycle ==
    /\ invoked > 0
    /\ dec.cycle = invoked
    /\ dec.count >= MAX_RESTARTS_PER_HOUR

\* C1: in a cycle whose probe was unhealthy and whose decision found
\* countRecent(now) >= MAX_RESTARTS_PER_HOUR, up to the end of the cycle no
\* restart call is started, record_restart is not executed, restartsTotal
\* and lastRestartTimestamp are as at the decision, and the entries of
\* RestartHistory inside the current window are those the decision left.
C1_ThrottledCycleRestartsNothing ==
    ThrottledCycle =>
        /\ pc \in {"throttled_wait", "check_enter"}
        /\ ~healthy
        /\ restart_calls = dec.calls
        /\ Len(accepted) = dec.recorded
        /\ restarts_total = dec.restarts
        /\ last_restart_ts = dec.last
        /\ InWindow(recent_restarts, clock) = InWindow(dec.hist, clock)

\* a throttled cycle at the end of its wait, during which a metrics request
\* pruned an entry the decision had counted
C1_Witness ==
    /\ ThrottledCycle
    /\ MAX_RESTARTS_PER_HOUR >= 1
    /\ pc = "throttled_wait"
    /\ clock >= wake
    /\ recent_restarts # dec.hist

\* C2: for every time a, the number of accepted restarts with timestamp in
\* [a, a + 3600] never exceeds MAX_RESTARTS_PER_HOUR, and RestartHistory
\* never holds more than MAX_RESTARTS_PER_HOUR entries, however metrics
\* requests interleave with the guardian loop.  (A window that holds the
\* most restarts starts at a restart, so a ranges over the timestamps.)
C2_RateLimit ==
    /\ \A i \in 1..Len(accepted) :
          Cardinality({j \in 1..Len(accepted) :
                          /\ accepted[j] >= accepted[i]
                          /\ accepted[j] <= accepted[i] + WINDOW})
             <= MAX_RESTARTS_PER_HOUR
    /\ Len(recent_restarts) <= MAX_RESTARTS_PER_HOUR

\* C3: after each completed call of check_imap, checksTotal is the number
\* of probe invocations so far and failuresTotal the number of those whose
\* verdict was false (so a healthy verdict adds nothing to failuresTotal).
C3_CountersMatchProbes ==
    ~InCheck =>
        /\ imap_checks_total = invoked
        /\ imap_failures_total = unhealthy

\* check_imap has returned twice or more, with both verdicts seen
C3_Witness ==
    /\ pc = "read_time"
    /\ invoked >= 2
    /\ unhealthy >= 1
    /\ unhealthy < invoked

\* C4: every call of countRecent(now), from the guardian loop or from the
\* metrics handler, leaves in RestartHistory exactly the previous entries
\* with timestamp >= now - 3600, in their order, and returns their number.
C4_CountRecentPrunesExactly ==
    [][/\ (pc = "decide_count" /\ pc' # pc) =>
              /\ recent_restarts' = InWindow(recent_restarts, now)
              /\ recent_count' = Len(InWindow(recent_restarts, now))
       /\ (pc = "record_store" /\ pc' # pc) =>
              recent_restarts' = InWindow(Append(recent_restarts, now), now)
       /\ (mpc = "render" /\ mpc' # mpc) =>
              /\ recent_restarts' = InWindow(recent_restarts, clock)
              /\ resp'.recent_restarts = Len(InWindow(recent_restarts, clock))
      ]_vars

\* a metrics request has pruned one restart and kept one whose timestamp is
\* exactly now - 3600
C4_Witness ==
    /\ resp.code = 200
    /\ Len(accepted) = 2
    /\ accepted[1] < resp.at - WINDOW
    /\ accepted[2] = resp.at - WINDOW
    /\ recent_restarts = <<accepted[2]>>
    /\ resp.recent_restarts = 1

\* C5: an accepted restart (unhealthy probe, countRecent(t) below the
\* limit) appends t to RestartHistory, sets lastRestartTimestamp to t and
\* adds exactly 1 to restartsTotal in one critical section, and
\* lastRestartTimestamp is 0 until the first accepted restart.
C5_AcceptedRestartRecorded ==
    /\ [](Len(accepted) = 0 => last_restart_ts = 0)
    /\ [](pc \in {"record_enter", "record_store"} =>
              /\ ~healthy
              /\ dec.at = now
              /\ dec.count < MAX_RESTARTS_PER_HOUR)
    /\ [][(pc = "record_store" /\ pc' # pc) =>
              /\ lock = "guardian"
              /\ lock' = "free"
              /\ recent_restarts' = Append(recent_restarts, now)
              /\ last_restart_ts' = now
              /\ restarts_total' = restarts_total + 1
         ]_vars

\* the second accepted restart has just been recorded
C5_Witness ==
    /\ pc = "restart_invoke"
    /\ restarts_total = 2
    /\ last_restart_ts = now
    /\ recent_restarts = <<accepted[1], now>>

\* C6: the restart is recorded before the external call is started, so
\* restartsTotal counts a call from the moment it starts; and a call that
\* failed is counted by the next throttle decision as long as its timestamp
\* is within the hour.
C6_RecordedBeforeCall ==
    /\ restart_calls <= restarts_total
    /\ pc = "restart_invoke" => restarts_total = restart_calls + 1
    /\ pc = "restart_running" =>
          /\ restarts_total = restart_calls
          /\ last_restart_ts = now
          /\ accepted[Len(accepted)] = now
    /\ ( /\ pc \in {"throttled_wait", "record_enter"}
         /\ outcome = "called_process_error"
         /\ dec.last >= dec.clock - WINDOW ) =>
          /\ dec.last \in Elements(dec.hist)
          /\ dec.count >= 1

\* the decision after a failed restart call counted that restart and
\* refused the next one
C6_Witness ==
    /\ pc = "throttled_wait"
    /\ outcome = "called_process_error"
    /\ dec.cycle = invoked
    /\ dec.last \in Elements(dec.hist)
    /\ dec.count = MAX_RESTARTS_PER_HOUR
    /\ restart_calls = restarts_total

\* every probe so far has failed, the limit is 5, and no more than 3600 s
\* have passed since the first of them
FailingBurst ==
    /\ MAX_RESTARTS_PER_HOUR = 5
    /\ unhealthy = probed
    /\ accepted # <<>> => clock <= accepted[1] + WINDOW

\* C7: from an empty RestartHistory with MAX_RESTARTS_PER_HOUR = 5, when
\* the probe fails in 6 consecutive cycles inside one 3600 s window, each of
\* the first five cycles issues one restart call and the 6th enters the
\* throttled wait with restartsTotal = 5 and no sixth call, whatever the
\* restart calls return and however metrics requests interleave.
C7_SixFailuresFiveRestarts ==
    FailingBurst =>
        /\ restart_calls <= 5
        /\ (invoked <= 5 /\ pc \in {"restart_running", "cooldown"}) =>
              /\ restart_calls = invoked
              /\ restarts_total = invoked
        /\ (invoked <= 5 /\ probed = invoked) =>
              pc \notin {"throttled_wait", "sleep_check"}
        /\ (invoked = 6 /\ probed = 6 /\
            pc \notin {"verdict_enter", "verdict_store", "read_time",
                       "decide_enter", "decide_count"}) =>
              /\ pc \in {"throttled_wait", "check_enter"}
              /\ dec.cycle = 6
              /\ dec.count = 5
              /\ restarts_total = 5
              /\ restart_calls = 5

\* the 6th failing cycle is in its throttled wait, after a failed restart
\* call and a metrics request
C7_Witness ==
    /\ FailingBurst
    /\ invoked = 6
    /\ pc = "throttled_wait"
    /\ restarts_total = 5
    /\ restart_calls = 5
    /\ outcome = "called_process_error"
    /\ resp.code = 200

\* the first call of check_imap has stored its verdict
FirstVerdictStored == imap_checks_total >= 1 /\ ~(invoked = 1 /\ InCheck)

\* C8 as stated: while every probe returns healthy, restartsTotal = 0,
\* failuresTotal = 0 and currentStatus = 1 in every reachable state, and no
\* restart call is issued.
C8_AllHealthyStatusOneThroughout ==
    unhealthy = 0 =>
        /\ restarts_total = 0
        /\ imap_failures_total = 0
        /\ restart_calls = 0
        /\ bridge_status = 1

\* C8 amended: while every probe returns healthy, restartsTotal = 0,
\* failuresTotal = 0, no restart call is issued, and currentStatus is 1 in
\* every state after the first probe has stored its verdict (it is 0 from
\* start-up until then).
C8_AllHealthyAfterFirstProbe ==
    unhealthy = 0 =>
        /\ restarts_total = 0
        /\ imap_failures_total = 0
        /\ restart_calls = 0
        /\ accepted = <<>>
        /\ bridge_status = IF FirstVerdictStored THEN 1 ELSE 0

\* two healthy probes done, and a metrics response that shows it
C8_Witness ==
    /\ unhealthy = 0
    /\ probed >= 2
    /\ pc = "sleep_check"
    /\ bridge_status = 1
    /\ resp.code = 200
    /\ resp.imap_checks_total = 2
    /\ resp.bridge_status = 1

\* the last response is a metrics snapshot taken within the 300 s of the
\* throttled wait the guardian is still in
ServedInThrottledWait ==
    /\ resp.code = 200
    /\ resp.gpc = "throttled_wait"
    /\ resp.cycle = invoked
    /\ pc = "throttled_wait"
    /\ resp.at <= wake

\* C9 as stated: a GET /metrics served during the throttled wait reports
\* bridge_status 0 and recent_restarts equal to the count the throttle
\* decision of that cycle used.
C9_ReportsThrottleCount ==
    ServedInThrottledWait =>
        /\ resp.bridge_status = 0
        /\ resp.recent_restarts = dec.count

\* C9 amended: a GET /metrics served during the throttled wait reports
\* bridge_status 0 and, as recent_restarts, the number of the restarts the
\* throttle decision counted whose timestamp is >= request time - 3600: at
\* most the decision's count, and that count when none has aged out.
C9_ReportsThrottleCountStillInWindow ==
    ServedInThrottledWait =>
        /\ resp.bridge_status = 0
        /\ resp.recent_restarts = Len(InWindow(dec.hist, resp.at))
        /\ resp.recent_restarts <= dec.count
        /\ (dec.hist # <<>> /\ dec.hist[1] >= resp.at - WINDOW) =>
              resp.recent_restarts = dec.count

\* the request was served after a restart the decision had counted left the
\* window
C9_Witness ==
    /\ ServedInThrottledWait
    /\ dec.count >= 1
    /\ resp.recent_restarts < dec.count
    /\ resp.bridge_status = 0

\* C10: the increment of checksTotal and the update of failuresTotal and
\* currentStatus for one probe take effect in one critical section: whenever
\* the lock is free (whatever a metrics snapshot can see), every probe
\* counted in checksTotal has its verdict applied, currentStatus is the
\* verdict of the last counted probe, and checksTotal - failuresTotal is
\* the number of counted probes that were healthy.
C10_ProbeCountersAtomic ==
    lock = "free" =>
        /\ imap_checks_total = probed
        /\ imap_checks_total - imap_failures_total = probed - unhealthy
        /\ probed > 0 => bridge_status = (IF healthy THEN 1 ELSE 0)

\* C11: whatever way the external restart call ends (success or any kind
\* of failure), the guardian loop does not stop: the end of the call starts
\* the RESTART_COOLDOWN sleep, from which the loop goes on to the next
\* probe, and the guardian thread is never left without a next step.
C11_LoopSurvivesRestart ==
    [][(pc = "restart_running" /\ pc' # pc) =>
          /\ pc' = "cooldown"
          /\ wake' = clock + RESTART_COOLDOWN
      ]_vars

\* the probe of the cycle ended in an exception
ProbeError == ending = "error"

\* C12: an error in the probe's connect, send or read becomes the verdict
\* healthy = false and does not leave check_imap: the call goes on to store
\* the verdict, checksTotal and failuresTotal each grow by exactly 1 over
\* the call, currentStatus becomes 0, and the guardian loop goes on to the
\* restart decision.
C12_ProbeErrorIsUnhealthy ==
    /\ [](ProbeError =>
              /\ ~healthy
              /\ pc \in {"verdict_enter", "verdict_store", "read_time",
                         "decide_enter", "decide_count"})
    /\ []((ProbeError /\ ~InCheck) =>
              /\ imap_checks_total = invoked
              /\ imap_failures_total = unhealthy
              /\ bridge_status = 0)
    /\ [][/\ (pc = "check_count" /\ pc' # pc) =>
              /\ imap_checks_total' = imap_checks_total + 1
              /\ imap_failures_total' = imap_failures_total
          /\ (pc = "probe" /\ pc' # pc) =>
              /\ pc' = "verdict_enter"
              /\ imap_checks_total' = imap_checks_total
              /\ imap_failures_total' = imap_failures_total
          /\ (ProbeError /\ pc = "verdict_store" /\ pc' # pc) =>
              /\ imap_checks_total' = imap_checks_total
              /\ imap_failures_total' = imap_failures_total + 1
              /\ bridge_status' = 0
              /\ pc' = "read_time"
          /\ (ProbeError /\ pc = "read_time" /\ pc' # pc) =>
              pc' = "decide_enter"
          /\ (ProbeError /\ pc = "decide_enter" /\ pc' # pc) =>
              pc' = "decide_count"
          /\ (InCheck /\ pc' = pc) =>
              /\ imap_checks_total' = imap_checks_total
              /\ imap_failures_total' = imap_failures_total
         ]_vars

\* a probe that ended in an exception, after a healthy one, has reached the
\* restart decision
C12_Witness ==
    /\ ProbeError
    /\ pc = "decide_count"
    /\ invoked = 2
    /\ imap_checks_total = 2
    /\ imap_failures_total = 1
    /\ bridge_status = 0

\* a step of the HTTP server thread (no guardian step moves mpc, and every
\* step of do_GET does)
MetricsMoves == mpc' # mpc

\* C13: a metrics request never changes checksTotal, failuresTotal,
\* restartsTotal, lastRestartTimestamp or currentStatus; a GET /metrics
\* takes from RestartHistory only entries older than request time - 3600
\* and keeps the others in their order; a request for any other path leaves
\* the whole store, RestartHistory included, as it was.
C13_MetricsFrame ==
    [][MetricsMoves =>
          /\ imap_checks_total' = imap_checks_total
          /\ imap_failures_total' = imap_failures_total
          /\ restarts_total' = restarts_total
          /\ last_restart_ts' = last_restart_ts
          /\ bridge_status' = bridge_status
          /\ Elements(recent_restarts') \subseteq Elements(recent_restarts)
          /\ InWindow(recent_restarts', clock) = InWindow(recent_restarts, clock)
          /\ Len(recent_restarts') <= Len(recent_restarts)
          /\ (path' # "/metrics") => recent_restarts' = recent_restarts
          /\ (mpc # "render") => recent_restarts' = recent_restarts
      ]_vars

\* during the cooldown after the only restart, more than an hour later, a
\* GET /metrics has taken that restart out of RestartHistory
C13_Witness ==
    /\ pc = "cooldown"
    /\ resp.code = 200
    /\ restarts_total = 1
    /\ resp.restarts_total = 1
    /\ last_restart_ts = accepted[1]
    /\ accepted[1] < resp.at - WINDOW
    /\ recent_restarts = <<>>

\* the last two responses are metrics snapshots, and the guardian made no
\* step between them (it passes through each position once per cycle)
TwoReadsNoGuardianStep ==
    /\ prev.code = 200
    /\ resp.code = 200
    /\ prev.gpc = resp.gpc
    /\ prev.cycle = resp.cycle

\* the entries of h older than the window that ends at t
AgedOut(h, t) == {i \in 1..Len(h) : h[i] < t - WINDOW}

\* C14: two GET /metrics reads with no guardian step between them return
\* the same checks, failures, restarts, last-restart timestamp, restart
\* limit and bridge status, and the second recent_restarts is the first
\* minus the number of entries that aged past the 3600 s window in between
\* (so it never increases).
C14_RepeatedReads ==
    /\ [](TwoReadsNoGuardianStep =>
              /\ resp.imap_checks_total = prev.imap_checks_total
              /\ resp.imap_failures_total = prev.imap_failures_total
              /\ resp.restarts_total = prev.restarts_total
              /\ resp.last_restart_timestamp = prev.last_restart_timestamp
              /\ resp.restart_limit = prev.restart_limit
              /\ resp.bridge_status = prev.bridge_status
              /\ resp.at >= prev.at
              /\ resp.recent_restarts <= prev.recent_restarts)
    /\ [][( /\ mpc = "render"
            /\ mpc' # mpc
            /\ prev.code = 200
            /\ prev.gpc = pc
            /\ prev.cycle = invoked ) =>
              /\ Len(recent_restarts) = prev.recent_restarts
              /\ resp'.recent_restarts =
                    prev.recent_restarts
                       - Cardinality(AgedOut(recent_restarts, clock))
         ]_vars

\* two reads during one cooldown: the first counted the restart, the second
\* came after it had left the window
C14_Witness ==
    /\ TwoReadsNoGuardianStep
    /\ resp.gpc = "cooldown"
    /\ prev.recent_restarts = 1
    /\ resp.recent_restarts = 0
    /\ prev.restarts_total = 1
    /\ resp.at > prev.at

\* the guardian sleeps, exchanges with the bridge, runs the external
\* restart call, or has ended
GuardianWaits ==
    pc \in {"startup", "sleep_check", "throttled_wait", "cooldown", "probe",
            "restart_invoke", "restart_running", "crashed"}

\* C15: the guardian loop never holds the lock while it sleeps (startup
\* delay, CHECK_INTERVAL, 300 s backoff, cooldown), exchanges with the
\* bridge or runs the external restart call; it holds it only inside the
\* four critical sections; and under fair scheduling every request the HTTP
\* server has taken is answered, a GET /metrics after getting the lock.
C15_SleepsNeverBlockMetrics ==
    /\ [](GuardianWaits => lock # "guardian")
    /\ [](lock = "guardian" <=>
             pc \in {"check_count", "verdict_store", "decide_count",
                     "record_store"})
    /\ [](lock = "metrics" <=> mpc = "render")
    /\ [](mpc = "idle" /\ requests > 0 =>
             resp.code = (IF path = "/metrics" THEN 200 ELSE 404))
    /\ (mpc # "idle") ~> (mpc = "idle")

\* a GET /metrics that had to wait for the guardian's critical section was
\* served while the guardian was in its 300 s wait
C15_Witness ==
    /\ resp.code = 200
    /\ resp.gpc = "throttled_wait"
    /\ pc = "throttled_wait"
    /\ clock < wake
    /\ lock = "free"
    /\ mpc = "idle"

\* the guardian is in one of its three sleeps of the loop
Sleeps == {"sleep_check", "throttled_wait", "cooldown"}

\* what a step of the guardian out of position pc must look like for the
\* cycle to take one of the three branches and sleep once
BranchStep ==
    /\ pc = "read_time" =>
          pc' = IF healthy THEN "sleep_check" ELSE "decide_enter"
    /\ pc = "decide_count" =>
          pc' = IF count_recent_restarts(recent_restarts, now)
                      >= MAX_RESTARTS_PER_HOUR
                THEN "throttled_wait" ELSE "record_enter"
    /\ pc = "record_store" =>
          /\ pc' = "restart_invoke"
          /\ restarts_total' = restarts_total + 1
    /\ pc = "restart_invoke" =>
          /\ pc' = "restart_running"
          /\ restart_calls' = restart_calls + 1
    /\ pc = "restart_running" => pc' = "cooldown"
    /\ pc \in Sleeps =>
          /\ pc' = "check_enter"
          /\ clock >= wake
    /\ pc' = "sleep_check" =>
          /\ wake' = clock + CHECK_INTERVAL
          /\ dec' = dec
          /\ recent_restarts' = recent_restarts
    /\ pc' = "throttled_wait" => wake' = clock + THROTTLE_WAIT
    /\ pc' = "cooldown" =>
          /\ wake' = clock + RESTART_COOLDOWN
          /\ restart_calls = dec.calls + 1
          /\ restarts_total = dec.restarts + 1
    /\ pc' \notin {"restart_invoke", "restart_running"} =>
          /\ restart_calls' = restart_calls
          /\ restarts_total' = restarts_total

\* C16: each guardian cycle takes one of three branches, fixed by the
\* probe's verdict and the throttle decision, and sleeps once before the
\* next probe: healthy, the CHECK_INTERVAL sleep with no restart decision
\* and no prune; unhealthy and throttled, the 300 s sleep with no restart
\* call; unhealthy and permitted, the record, one restart call, then the
\* RESTART_COOLDOWN sleep; and every sleep ends in the next call of
\* check_imap.
C16_ThreeBranches == [][pc' # pc => BranchStep]_vars

\* C17: restart calls are started only by the guardian loop, one at a time
\* and at most one per cycle; each is started in a cycle whose probe
\* returned unhealthy, after that cycle's throttle decision; and after a
\* call the guardian goes through the cooldown sleep and a new probe with
\* an unhealthy verdict before it starts another (a failed call is not
\* retried without a new probe).
C17_OneRestartPerUnhealthyProbe ==
    /\ [](restart_calls <= unhealthy)
    /\ [](pc \in {"restart_invoke", "restart_running"} =>
              /\ ~healthy
              /\ probed = invoked
              /\ dec.cycle = invoked)
    /\ []((invoked > 0 /\ dec.cycle = invoked) =>
              restart_calls <= dec.calls + 1)
    /\ [][/\ restart_calls' # restart_calls =>
              /\ pc = "restart_invoke"
              /\ pc' = "restart_running"
              /\ mpc' = mpc
              /\ restart_calls' = restart_calls + 1
              /\ restart_calls = dec.calls
              /\ unhealthy > restart_calls
          /\ (pc = "restart_running" /\ pc' # pc) =>
              pc' \in {"cooldown", "crashed"}
          /\ (pc = "cooldown" /\ pc' # pc) =>
              /\ pc' = "check_enter"
              /\ clock >= wake
          /\ (pc = "check_enter" /\ pc' # pc) =>
              /\ pc' = "check_count"
              /\ invoked' = invoked + 1
          /\ pc = "crashed" => pc' = pc
         ]_vars

\* the second restart call runs, after the first one failed, a cooldown
\* sleep and a second unhealthy probe
C17_Witness ==
    /\ pc = "restart_running"
    /\ restart_calls = 2
    /\ outcome = "called_process_error"
    /\ unhealthy = 2
    /\ dec.cycle = invoked
    /\ dec.calls = 1

\* C18: in every reachable state, however guardian steps and metrics
\* requests interleave, restartsTotal <= failuresTotal <= checksTotal, and
\* no step makes checksTotal, failuresTotal or restartsTotal smaller.
C18_CountersOrderedAndMonotonic ==
    /\ [](/\ restarts_total <= imap_failures_total
          /\ imap_failures_total <= imap_checks_total
          /\ restarts_total >= 0)
    /\ [][/\ imap_checks_total' >= imap_checks_total
          /\ imap_failures_total' >= imap_failures_total
          /\ restarts_total' >= restarts_total
         ]_vars

\* three probes, one of them healthy, two restarts, and a metrics request
\* served in between
C18_Witness ==
    /\ imap_checks_total = 3
    /\ imap_failures_total = 2
    /\ restarts_total = 2
    /\ pc = "cooldown"
    /\ resp.code = 200
    /\ resp.restarts_total = 1

Sorted(h) == \A i \in 1..Len(h) : \A j \in i..Len(h) : h[i] <= h[j]

\* C19: in every state with the lock free, and so in every metrics
\* snapshot: restartsTotal = 0 exactly when lastRestartTimestamp = 0 (the
\* clock being positive); RestartHistory has at most restartsTotal entries;
\* RestartHistory is sorted non-decreasingly (the clock never goes back);
\* and the last entry of a non-empty RestartHistory is lastRestartTimestamp.
C19_StoreConsistentWhenLockFree ==
    /\ lock = "free" =>
          /\ (restarts_total = 0) <=> (last_restart_ts = 0)
          /\ Len(recent_restarts) <= restarts_total
          /\ Sorted(recent_restarts)
          /\ recent_restarts # <<>> =>
                recent_restarts[Len(recent_restarts)] = last_restart_ts
    /\ resp.code = 200 =>
          /\ (resp.restarts_total = 0) <=> (resp.last_restart_timestamp = 0)
          /\ resp.recent_restarts <= resp.restarts_total

\* two restarts at different times are in RestartHistory, and a metrics
\* snapshot has shown both
C19_Witness ==
    /\ lock = "free"
    /\ restarts_total = 2
    /\ Len(recent_restarts) = 2
    /\ recent_restarts[1] < recent_restarts[2]
    /\ last_restart_ts = recent_restarts[2]
    /\ resp.code = 200
    /\ resp.recent_restarts = 2
    /\ resp.last_restart_timestamp = last_restart_ts

\* the guardian loop is in its startup delay
Starting == pc = "startup"

\* C20: while the guardian loop is in its startup delay no probe and no
\* restart call is made: checksTotal, failuresTotal and restartsTotal are 0
\* and RestartHistory is empty; a metrics request is served meanwhile (the
\* guardian does not hold the lock) and shows these values; the loop leaves
\* the delay only once STARTUP_DELAY has passed, nothing else holds it
\* back then, it goes to the call of check_imap, and that call is the
\* first probe.
C20_StartupDelay ==
    /\ [](Starting =>
              /\ invoked = 0
              /\ restart_calls = 0
              /\ imap_checks_total = 0
              /\ imap_failures_total = 0
              /\ restarts_total = 0
              /\ recent_restarts = <<>>
              /\ lock # "guardian")
    /\ []((Starting /\ resp.code = 200) =>
              /\ resp.imap_checks_total = 0
              /\ resp.imap_failures_total = 0
              /\ resp.restarts_total = 0
              /\ resp.recent_restarts = 0)
    /\ []((Starting /\ mpc = "dispatch" /\ path = "/metrics") =>
              ENABLED MetricsAcquire)
    /\ []((Starting /\ clock >= STARTUP_DELAY) => ENABLED StartupDone)
    /\ []((pc = "check_enter" /\ invoked = 0) =>
              /\ lock # "guardian"
              /\ imap_checks_total = 0)
    /\ [][/\ (Starting /\ pc' # pc) =>
              /\ pc' = "check_enter"
              /\ clock >= STARTUP_DELAY
          /\ (invoked = 0 /\ pc = "check_enter" /\ pc' # pc) =>
              /\ pc' = "check_count"
              /\ invoked' = 1
         ]_vars

\* a GET /metrics was served before the startup delay had passed
C20_Witness ==
    /\ Starting
    /\ clock < STARTUP_DELAY
    /\ resp.code = 200
    /\ resp.imap_checks_total = 0
    /\ resp.bridge_status = 0
    /\ mpc = "idle"

=============================================================================
